---- MODULE Spec2Model ----
(***************************************************************************)
(* Model of scripts/ingest.py: the PDF ingestion pipeline.                 *)
(*                                                                         *)
(* Spec      : one run of main(), from the directory scan to its exit.     *)
(* FairSpec  : the same run, with the progress a sequential program makes. *)
(* SpecRerun : a run of main() and a second run on the table it left.      *)
(* SpecScan  : scan_documents() on directories with every kind of sidecar. *)
(* SpecChunk : chunk_text() run on bounded texts, sizes and overlaps.      *)
(*                                                                         *)
(* Short Python strs (answers, titles) are sequences of one-character      *)
(* strings and a file name is the sequence <<stem, suffix>>.  The text of  *)
(* a document is a Python str kept run-length encoded: a sequence of runs  *)
(* [ch, n], n >= 1, neighbouring runs of different characters, so that two *)
(* texts are equal exactly when their encodings are.                       *)
(***************************************************************************)
EXTENDS Integers, Sequences, FiniteSets

VARIABLES
    pc,            \* position of main()
    truncate,      \* args.truncate
    dir,           \* args.docs_dir: NoDir, or the PDFs glob() yields, each with its sidecar
    items,         \* main: items
    missing_bibs,  \* main: missing_bibs
    supabase,      \* main: supabase (the store handle)
    store,         \* rows of the 'documents' table
    nextId,        \* the table's identity sequence
    idx,           \* position of the `for item in items` loop (1-based)
    pagesLeft,     \* pages of the open reader not yet extracted
    full_text,     \* main: full_text
    chunks,        \* main: chunks
    i,             \* main: i (zero-based chunk index)
    embedding,     \* main: embedding
    hist,          \* what the run has done so far (observation only)
    ct             \* the frame of a chunk_text() call: text, chunk_size, overlap, start, chunks

vars == <<pc, truncate, dir, items, missing_bibs, supabase, store, nextId, idx,
          pagesLeft, full_text, chunks, i, embedding, hist, ct>>

mainVars == <<pc, truncate, dir, items, missing_bibs, supabase, store, nextId, idx,
              pagesLeft, full_text, chunks, i, embedding, hist>>

----------------------------------------------------------------------------
(* Bounds *)

MaxDocs == 2        \* PDFs in the directory
MaxPages == 2       \* pages of one PDF
MaxPre == 1         \* rows in the table before the run
MaxFaults == 2      \* failing PDF opens, page extractions, embeddings and inserts in a run
PageLen == 499      \* characters of a page that has text
MaxLen == 4         \* SpecChunk: length of the text
MaxSize == 3        \* SpecChunk: chunk_size and overlap

----------------------------------------------------------------------------
(* Python helpers *)

Min(a, b) == IF a < b THEN a ELSE b
Max(a, b) == IF a > b THEN a ELSE b

\* ch * n
Rep(ch, n) == IF n <= 0 THEN <<>> ELSE <<[ch |-> ch, n |-> n]>>

\* len(s) of a text
RECURSIVE StrLen(_)
StrLen(s) == IF s = <<>> THEN 0 ELSE Head(s).n + StrLen(Tail(s))

\* a + b of two texts
StrCat(a, b) ==
    IF a = <<>> THEN b
    ELSE IF b = <<>> THEN a
    ELSE IF a[Len(a)].ch = b[1].ch
         THEN SubSeq(a, 1, Len(a) - 1) \o Rep(b[1].ch, a[Len(a)].n + b[1].n) \o Tail(b)
         ELSE a \o b

\* s without its first k characters, and the first k characters of s (k >= 0)
RECURSIVE Drop(_, _)
Drop(s, k) ==
    IF k = 0 \/ s = <<>> THEN s
    ELSE IF Head(s).n <= k THEN Drop(Tail(s), k - Head(s).n)
         ELSE Rep(Head(s).ch, Head(s).n - k) \o Tail(s)

RECURSIVE Take(_, _)
Take(s, k) ==
    IF k = 0 \/ s = <<>> THEN <<>>
    ELSE IF Head(s).n <= k THEN <<Head(s)>> \o Take(Tail(s), k - Head(s).n)
         ELSE Rep(Head(s).ch, k)

\* s[a:b] of a text (zero-based, negative indices count from the end)
StrSlice(s, a, b) ==
    LET n == StrLen(s)
        norm(x) == IF x < 0 THEN Max(x + n, 0) ELSE Min(x, n)
        lo == norm(a)
        hi == norm(b)
    IN  IF lo >= hi THEN <<>> ELSE Take(Drop(s, lo), hi - lo)

\* the text as a plain sequence of characters, and back
RECURSIVE Chars(_)
Chars(s) == IF s = <<>> THEN <<>> ELSE [k \in 1..Head(s).n |-> Head(s).ch] \o Chars(Tail(s))

RECURSIVE Text(_)
Text(q) == IF q = <<>> THEN <<>> ELSE StrCat(Rep(Head(q), 1), Text(Tail(q)))

\* dict.get(key, default)
Get(d, key, default) == IF key \in DOMAIN d THEN d[key] ELSE default

\* {**a, **b} and dict.update: the keys of b win
Merge(a, b) ==
    [k \in (DOMAIN a) \cup (DOMAIN b) |-> IF k \in DOMAIN b THEN b[k] ELSE a[k]]

\* str.replace(ch, "")
RECURSIVE Remove(_, _)
Remove(s, ch) ==
    IF s = <<>> THEN <<>>
    ELSE IF Head(s) = ch THEN Remove(Tail(s), ch)
         ELSE <<Head(s)>> \o Remove(Tail(s), ch)

----------------------------------------------------------------------------
(* Files *)

\* a sidecar: absent, one read_text cannot read, one bibtexparser.loads raises on,
\* or one it loads
NoBib == [kind |-> "absent"]
Unreadable == [kind |-> "unreadable"]
Malformed == [kind |-> "malformed"]

Stems == <<"a", "b", "c", "d">>

\* pdf_path.name and pdf_path.stem
PathName(stem) == <<stem, ".pdf">>
PathStem(stem) == <<stem>>

GoodBib ==
    [kind |-> "parsed",
     entries |-> << [title |-> <<"{", "T", "}", "1">>, year |-> "2020", journal |-> "J",
                    ENTRYTYPE |-> "article", author |-> "A"] >>]

\* a sidecar bibtexparser finds no entry in
EmptyBib == [kind |-> "parsed", entries |-> <<>>]

\* a sidecar whose first entry has no title, year, journal or author; only the
\* first entry counts
PartialBib ==
    [kind |-> "parsed",
     entries |-> << [booktitle |-> "B", ENTRYTYPE |-> "inproceedings"],
                    [title |-> <<"U">>, year |-> "2021"] >>]

BibFiles == {NoBib, GoodBib}

\* the sidecars the scan is followed on
ScanBibFiles == {NoBib, Unreadable, Malformed, EmptyBib, PartialBib, GoodBib}

\* a docs_dir: missing, or holding the PDFs glob("*.pdf") yields, in its order
NoDir == [exists |-> FALSE, pdf_files |-> <<>>]

DirectoriesWith(bibs) ==
    {NoDir} \cup
    UNION { {[exists |-> TRUE,
              pdf_files |-> [k \in 1..n |-> [stem |-> Stems[k], bib |-> b[k]]]]
             : b \in [1..n -> bibs]}
            : n \in 0..MaxDocs }

Directories == DirectoriesWith(BibFiles)

\* what page.extract_text() returns for a page: no text, or PageLen characters
PageTexts == {<<>>, Rep("x", PageLen)}

\* what the operator types at a prompt
Responses == {<<"y">>, <<" ", "Y", " ">>, <<"n">>, <<"y", "e", "s">>, <<>>}

----------------------------------------------------------------------------
(* parse_bib_file, scan_documents *)

\* defaults that leave the author out
BibDefaults_NoAuthor(filename) ==
    [source |-> filename, title |-> filename, year |-> "Unknown", type |-> "document"]

\* lines 61-67: the metadata parse_bib_file starts from
BibDefaults(filename) ==
    [source |-> filename, title |-> filename, year |-> "Unknown",
     type |-> "document", author |-> "Unknown"]

\* read_text or loads raising is caught at line 82, before any update of metadata
parse_bib_file(bib, filename) ==
    LET metadata == BibDefaults(filename)
    IN  IF bib.kind # "parsed" THEN metadata
        ELSE IF bib.entries = <<>> THEN metadata
        ELSE LET entry == bib.entries[1]
             IN  Merge(metadata,
                       [title |-> Remove(Remove(Get(entry, "title", filename), "{"), "}"),
                        year |-> Get(entry, "year", "Unknown"),
                        journal |-> Get(entry, "journal", Get(entry, "booktitle", "Unknown")),
                        type |-> Get(entry, "ENTRYTYPE", "document"),
                        author |-> Get(entry, "author", "Unknown")])

\* one turn of the `for pdf_path in pdf_files` loop
ScanItem(f) ==
    IF f.bib.kind = "absent"
    THEN [path |-> PathName(f.stem),
          meta |-> [source |-> PathName(f.stem), title |-> PathStem(f.stem),
                    year |-> "Unknown", type |-> "document"]]
    ELSE [path |-> PathName(f.stem), meta |-> parse_bib_file(f.bib, PathName(f.stem))]

\* a scan that also lists the sidecars it could not parse
MissingOf_Unparsed(pdf_files) ==
    LET bad == SelectSeq(pdf_files, LAMBDA f : f.bib.kind \notin {"parsed"})
    IN  [k \in 1..Len(bad) |-> PathName(bad[k].stem)]

\* missing_bibs as the loop of lines 100-104 builds it
RECURSIVE MissingOf(_)
MissingOf(pdf_files) ==
    IF pdf_files = <<>> THEN <<>>
    ELSE (IF Head(pdf_files).bib.kind = "absent" THEN <<PathName(Head(pdf_files).stem)>> ELSE <<>>)
         \o MissingOf(Tail(pdf_files))

\* scan_documents on an existing directory: (valid_items, missing_bibs)
scan_documents(pdf_files) ==
    [valid_items |-> [k \in 1..Len(pdf_files) |-> ScanItem(pdf_files[k])],
     missing_bibs |-> MissingOf(pdf_files)]

----------------------------------------------------------------------------
(* chunk_text, confirm_action, get_embedding *)

chunk_size_default == 1000
overlap_default == 100

\* the frame of a chunk_text call on entry (lines 140-142)
ChunkFrame(text, chunk_size, overlap) ==
    [pc |-> "loop", text |-> text, chunk_size |-> chunk_size, overlap |-> overlap,
     start |-> 0, chunks |-> <<>>]

\* a loop that also runs when start has reached the end of the text
ChunkCond_Inclusive(text, start) == start <= StrLen(text)

\* `while start < text_len`
ChunkCond(text, start) == start < StrLen(text)

\* lines 144-145: text[start:end] with end = start + chunk_size
ChunkSlice(text, start, chunk_size) == StrSlice(text, start, start + chunk_size)

\* a step that forgets the overlap
ChunkAdvance_NoOverlap(start, chunk_size, overlap) == start + chunk_size

\* line 146: start += chunk_size - overlap
ChunkAdvance(start, chunk_size, overlap) == start + (chunk_size - overlap)

\* the loop of chunk_text from `start` on: the chunks it still appends
RECURSIVE ChunkFrom(_, _, _, _)
ChunkFrom(text, chunk_size, overlap, start) ==
    IF ChunkCond(text, start)
    THEN <<ChunkSlice(text, start, chunk_size)>>
         \o ChunkFrom(text, chunk_size, overlap, ChunkAdvance(start, chunk_size, overlap))
    ELSE <<>>

\* chunk_text, run to its return
chunk_text(text, chunk_size, overlap) == ChunkFrom(text, chunk_size, overlap, 0)

\* one turn of the loop on the frame of a call (lines 144-146)
ChunkBody(f) ==
    [f EXCEPT !.chunks = Append(@, ChunkSlice(f.text, f.start, f.chunk_size)),
              !.start = ChunkAdvance(@, f.chunk_size, f.overlap)]

IsSpace(ch) == ch \in {" ", "\t", "\n"}

RECURSIVE LStrip(_)
LStrip(s) == IF s # <<>> /\ IsSpace(Head(s)) THEN LStrip(Tail(s)) ELSE s

RECURSIVE RStrip(_)
RStrip(s) ==
    IF s # <<>> /\ IsSpace(s[Len(s)]) THEN RStrip(SubSeq(s, 1, Len(s) - 1)) ELSE s

Lower(s) == [k \in 1..Len(s) |-> IF s[k] = "Y" THEN "y" ELSE IF s[k] = "N" THEN "n" ELSE s[k]]

\* a confirm_action that takes every answer but n for a yes
confirm_action_not_n(response) == Lower(RStrip(LStrip(response))) # <<"n">>

\* a confirm_action that takes every answer starting with y for a yes
confirm_action_prefix(response) ==
    LET r == Lower(RStrip(LStrip(response))) IN r # <<>> /\ r[1] = "y"

\* confirm_action: input(...).strip().lower() == 'y'
confirm_action(response) == Lower(RStrip(LStrip(response))) = <<"y">>

\* the vector the provider returns for a text
get_embedding(text) == <<"vector of", text>>

----------------------------------------------------------------------------
(* The store *)

OldMeta == [source |-> <<"old", ".pdf">>, title |-> <<"old">>, year |-> "1999",
            type |-> "document", author |-> "Unknown", chunk_index |-> 0]

\* the rows a table holds before the run; the identity column counts from 1
OldRows(n) ==
    {[id |-> k, content |-> Text(<<"o", "l", "d">>), metadata |-> OldMeta,
      embedding |-> get_embedding(Text(<<"o", "l", "d">>))] : k \in 1..n}

\* a delete with eq in place of neq
DeleteEqId(rows, sentinel) == {r \in rows : ~(r.id = sentinel)}

\* supabase.table("documents").delete().neq("id", 0).execute()
DeleteNeqId(rows, sentinel) == {r \in rows : ~(r.id # sentinel)}

NoClient == "no client"
Client == "supabase client"

----------------------------------------------------------------------------
(* main *)

\* no chunk_text call is being followed
NoCall == [ChunkFrame(<<>>, chunk_size_default, overlap_default) EXCEPT !.pc = "idle"]

\* what the operator typed, as the run's history keeps it: "y" for the letter y in
\* either case with blanks around it, "other" for anything else
Typed(response) ==
    IF \E k \in 1..Len(response) :
          /\ response[k] \in {"y", "Y"}
          /\ \A j \in (1..Len(response)) \ {k} : response[j] = " "
    THEN "y" ELSE "other"

Hist0(rows) ==
    [store0 |-> rows,           \* the table before the run
     missingAnswer |-> "unasked",  \* the answer typed at the missing-metadata prompt
     startAnswer |-> "unasked",    \* the answer typed at the start-ingestion prompt
     connects |-> 0,            \* calls of setup_services
     truncates |-> 0,           \* calls of truncate_database
     truncated |-> "no",        \* its delete: no, ok, failed
     opens |-> 0,               \* PdfReader(...) calls
     embeds |-> 0,              \* get_embedding calls
     inserts |-> 0,             \* insert(...).execute() calls
     docLog |-> <<>>,           \* per attempted item: how its extraction ended
     chunkLog |-> <<>>,         \* per attempted chunk: how it ended
     faults |-> 0,              \* failures met so far
     run |-> 1,                 \* 1 for the first run on the table, 2 for a run after it
     before |-> {},             \* in a second run: the table before the first
     firstLog |-> <<>>]         \* in a second run: docLog of the first

Init ==
    /\ pc = "scan"
    /\ truncate \in BOOLEAN
    /\ dir \in Directories
    /\ items = <<>>
    /\ missing_bibs = <<>>
    /\ supabase = NoClient
    /\ \E n \in 0..MaxPre :
          /\ store = OldRows(n)
          /\ nextId = n + 1
          /\ hist = Hist0(OldRows(n))
    /\ idx = 0
    /\ pagesLeft = 0
    /\ full_text = <<>>
    /\ chunks = <<>>
    /\ i = 0
    /\ embedding = <<>>
    /\ ct = NoCall

\* line 158 on a missing directory: FileNotFoundError leaves main
ScanNoDir ==
    /\ pc = "scan"
    /\ ~dir.exists
    /\ pc' = "crashed"
    /\ UNCHANGED <<truncate, dir, items, missing_bibs, supabase, store, nextId, idx,
                   pagesLeft, full_text, chunks, i, embedding, hist, ct>>

\* a main without the return of lines 160-162
AfterScan_AskAnyway(valid_items, missing) ==
    IF missing # <<>> THEN "ask_missing" ELSE "ask_start"

\* where main goes after the scan (lines 160-165, 188)
AfterScan(valid_items, missing) ==
    IF valid_items = <<>> THEN "no_docs"
    ELSE IF missing # <<>> THEN "ask_missing"
    ELSE "ask_start"

\* lines 156-162: scan_documents, and the return when nothing was found
Scan ==
    /\ pc = "scan"
    /\ dir.exists
    /\ LET r == scan_documents(dir.pdf_files)
       IN  /\ items' = r.valid_items
           /\ missing_bibs' = r.missing_bibs
           /\ pc' = AfterScan(r.valid_items, r.missing_bibs)
    /\ UNCHANGED <<truncate, dir, supabase, store, nextId, idx, pagesLeft, full_text,
                   chunks, i, embedding, hist, ct>>

\* lines 165-174: the missing-metadata prompt; declining is sys.exit(0)
ConfirmMissing ==
    /\ pc = "ask_missing"
    /\ \E response \in Responses :
          /\ pc' = IF confirm_action(response) THEN "ask_start" ELSE "aborted"
          /\ hist' = [hist EXCEPT !.missingAnswer = Typed(response)]
    /\ UNCHANGED <<truncate, dir, items, missing_bibs, supabase, store, nextId, idx,
                   pagesLeft, full_text, chunks, i, embedding, ct>>

\* lines 176-190: the review table and the start prompt; declining is sys.exit(0)
ConfirmStart ==
    /\ pc = "ask_start"
    /\ \E response \in Responses :
          /\ pc' = IF confirm_action(response) THEN "connect" ELSE "aborted"
          /\ hist' = [hist EXCEPT !.startAnswer = Typed(response)]
    /\ UNCHANGED <<truncate, dir, items, missing_bibs, supabase, store, nextId, idx,
                   pagesLeft, full_text, chunks, i, embedding, ct>>

\* what setup_services meets: a missing env file, missing keys, a client that
\* cannot be built, or nothing in the way
SetupOutcomes == {"no_env_file", "missing_keys", "client_error", "ok"}

\* setup_services: the handle, or NoClient when it raises
setup_services(outcome) == IF outcome = "ok" THEN Client ELSE NoClient

\* a main that truncates whether asked to or not
AfterConnect_AlwaysTruncate(client, flag) ==
    IF client = NoClient THEN "conn_failed" ELSE "truncate"

\* a main that looks at the truncate flag before it looks at the connection
AfterConnect_TruncateFirst(client, flag) ==
    IF flag THEN "truncate"
    ELSE IF client = NoClient THEN "conn_failed"
    ELSE "loop"

\* where main goes after setup_services (lines 195-201)
AfterConnect(client, flag) ==
    IF client = NoClient THEN "conn_failed"
    ELSE IF flag THEN "truncate"
    ELSE "loop"

\* lines 192-197: connect, and the return when that fails
Connect ==
    /\ pc = "connect"
    /\ \E outcome \in SetupOutcomes : supabase' = setup_services(outcome)
    /\ pc' = AfterConnect(supabase', truncate)
    /\ idx' = IF pc' = "loop" THEN 1 ELSE idx
    /\ hist' = [hist EXCEPT !.connects = @ + 1]
    /\ UNCHANGED <<truncate, dir, items, missing_bibs, store, nextId, pagesLeft,
                   full_text, chunks, i, embedding, ct>>

\* truncate_database: the table after the call; a delete that raises leaves it as it was
truncate_database(rows, ok) == IF ok THEN DeleteNeqId(rows, 0) ELSE rows

\* a main that stops when the delete fails
AfterTruncate_Fatal(ok) == IF ok THEN "loop" ELSE "crashed"

\* where main goes after truncate_database: its `except` (line 128) prints and
\* returns, so the loop of line 205 follows either way
AfterTruncate(ok) == "loop"

\* lines 199-201
Truncate ==
    /\ pc = "truncate"
    /\ \E ok \in BOOLEAN :
          /\ store' = truncate_database(store, ok)
          /\ hist' = [hist EXCEPT !.truncates = @ + 1,
                                  !.truncated = IF ok THEN "ok" ELSE "failed"]
          /\ pc' = AfterTruncate(ok)
    /\ idx' = 1
    /\ UNCHANGED <<truncate, dir, items, missing_bibs, supabase, nextId, pagesLeft,
                   full_text, chunks, i, embedding, ct>>

\* a record that counts its chunks from 1
Record_OneBased(id, chunk, metadata, index, vector) ==
    [id |-> id, content |-> chunk, metadata |-> Merge(metadata, [chunk_index |-> index + 1]),
     embedding |-> vector]

\* the record main builds for chunk `index` of an item (lines 223-227)
Record(id, chunk, metadata, index, vector) ==
    [id |-> id, content |-> chunk, metadata |-> Merge(metadata, [chunk_index |-> index]),
     embedding |-> vector]

\* an insert that replaces the row of the same source and chunk_index
InsertRow_Upsert(rows, row) ==
    {r \in rows : ~(/\ r.metadata.source = row.metadata.source
                    /\ r.metadata.chunk_index = row.metadata.chunk_index)} \cup {row}

\* supabase.table("documents").insert(data).execute(): the table after a successful call
InsertRow(rows, row) == rows \cup {row}

CanFail == hist.faults < MaxFaults

DocEntry(result, n) == [item |-> idx, result |-> result, nchunks |-> n]
ChunkEntry(result) == [item |-> idx, i |-> i, result |-> result]

\* the end of one turn of `for i, chunk in enumerate(chunks)`: the next chunk, or the
\* next item when this was the last one
NextChunk ==
    IF i + 1 < Len(chunks)
    THEN /\ i' = i + 1
         /\ pc' = "embed"
         /\ idx' = idx
    ELSE /\ i' = i
         /\ pc' = "loop"
         /\ idx' = idx + 1

\* the `except` of line 237: the item is given up, the loop goes on
SkipDocument ==
    /\ pc' = "loop"
    /\ idx' = idx + 1

\* line 212: PdfReader raises
OpenPdfFails ==
    /\ pc = "loop"
    /\ idx <= Len(items)
    /\ CanFail
    /\ hist' = [hist EXCEPT !.opens = @ + 1, !.faults = @ + 1,
                            !.docLog = Append(@, DocEntry("open_failed", 0))]
    /\ SkipDocument
    /\ UNCHANGED <<truncate, dir, items, missing_bibs, supabase, store, nextId, pagesLeft,
                   full_text, chunks, i, embedding, ct>>

\* lines 205-213: the next item of the worklist and its PdfReader
OpenPdf ==
    /\ pc = "loop"
    /\ idx <= Len(items)
    /\ \E n \in 0..MaxPages : pagesLeft' = n
    /\ full_text' = <<>>
    /\ hist' = [hist EXCEPT !.opens = @ + 1]
    /\ pc' = "extract"
    /\ UNCHANGED <<truncate, dir, items, missing_bibs, supabase, store, nextId, idx,
                   chunks, i, embedding, ct>>

\* an `except` around the single page: the page is given up, the document is not
ExtractPageFails_SkipsPage ==
    /\ pc = "extract"
    /\ pagesLeft > 0
    /\ CanFail
    /\ hist' = [hist EXCEPT !.faults = @ + 1,
                            !.docLog = Append(@, DocEntry("extract_failed", 0))]
    /\ pagesLeft' = pagesLeft - 1
    /\ UNCHANGED <<pc, truncate, dir, items, missing_bibs, supabase, store, nextId, idx,
                   full_text, chunks, i, embedding, ct>>

\* line 215: extract_text raises
ExtractPageFails ==
    /\ pc = "extract"
    /\ pagesLeft > 0
    /\ CanFail
    /\ hist' = [hist EXCEPT !.faults = @ + 1,
                            !.docLog = Append(@, DocEntry("extract_failed", 0))]
    /\ SkipDocument
    /\ UNCHANGED <<truncate, dir, items, missing_bibs, supabase, store, nextId, pagesLeft,
                   full_text, chunks, i, embedding, ct>>

\* lines 214-216: one page of the reader
ExtractPage ==
    /\ pc = "extract"
    /\ pagesLeft > 0
    /\ \E text \in PageTexts :
          full_text' = IF text # <<>> THEN StrCat(full_text, StrCat(text, Rep("\n", 1)))
                       ELSE full_text
    /\ pagesLeft' = pagesLeft - 1
    /\ UNCHANGED <<pc, truncate, dir, items, missing_bibs, supabase, store, nextId, idx,
                   chunks, i, embedding, hist, ct>>

\* line 218, and the start of the chunk loop (or its end, when there is no chunk)
Chunk ==
    /\ pc = "extract"
    /\ pagesLeft = 0
    /\ chunks' = chunk_text(full_text, chunk_size_default, overlap_default)
    /\ hist' = [hist EXCEPT !.docLog = Append(@, DocEntry("read", Len(chunks')))]
    /\ IF chunks' = <<>>
       THEN /\ pc' = "loop"
            /\ idx' = idx + 1
            /\ i' = i
       ELSE /\ pc' = "embed"
            /\ idx' = idx
            /\ i' = 0
    /\ UNCHANGED <<truncate, dir, items, missing_bibs, supabase, store, nextId, pagesLeft,
                   full_text, embedding, ct>>

\* a provider failure that is swallowed: the insert follows with the embedding at hand
EmbedFails_InsertsAnyway ==
    /\ pc = "embed"
    /\ CanFail
    /\ hist' = [hist EXCEPT !.embeds = @ + 1, !.faults = @ + 1]
    /\ pc' = "insert"
    /\ UNCHANGED <<truncate, dir, items, missing_bibs, supabase, store, nextId, idx,
                   pagesLeft, full_text, chunks, i, embedding, ct>>

\* a provider failure caught around the chunk loop: the rest of the document is skipped
EmbedFails_SkipsDocument ==
    /\ pc = "embed"
    /\ CanFail
    /\ hist' = [hist EXCEPT !.embeds = @ + 1, !.faults = @ + 1,
                            !.chunkLog = Append(@, ChunkEntry("embed_failed"))]
    /\ SkipDocument
    /\ UNCHANGED <<truncate, dir, items, missing_bibs, supabase, store, nextId, pagesLeft,
                   full_text, chunks, i, embedding, ct>>

\* line 222: the provider fails, the `except` of line 233 goes to the next chunk
EmbedFails ==
    /\ pc = "embed"
    /\ CanFail
    /\ hist' = [hist EXCEPT !.embeds = @ + 1, !.faults = @ + 1,
                            !.chunkLog = Append(@, ChunkEntry("embed_failed"))]
    /\ NextChunk
    /\ UNCHANGED <<truncate, dir, items, missing_bibs, supabase, store, nextId, pagesLeft,
                   full_text, chunks, embedding, ct>>

\* line 222: the embedding of chunk i
Embed ==
    /\ pc = "embed"
    /\ embedding' = get_embedding(chunks[i + 1])
    /\ hist' = [hist EXCEPT !.embeds = @ + 1]
    /\ pc' = "insert"
    /\ UNCHANGED <<truncate, dir, items, missing_bibs, supabase, store, nextId, idx,
                   pagesLeft, full_text, chunks, i, ct>>

\* an insert failure nobody catches: the exception leaves main
InsertFails_Uncaught ==
    /\ pc = "insert"
    /\ CanFail
    /\ hist' = [hist EXCEPT !.inserts = @ + 1, !.faults = @ + 1,
                            !.chunkLog = Append(@, ChunkEntry("insert_failed"))]
    /\ pc' = "crashed"
    /\ UNCHANGED <<truncate, dir, items, missing_bibs, supabase, store, nextId, idx,
                   pagesLeft, full_text, chunks, i, embedding, ct>>

\* line 228: the insert fails, the `except` of line 233 goes to the next chunk
InsertFails ==
    /\ pc = "insert"
    /\ CanFail
    /\ hist' = [hist EXCEPT !.inserts = @ + 1, !.faults = @ + 1,
                            !.chunkLog = Append(@, ChunkEntry("insert_failed"))]
    /\ NextChunk
    /\ UNCHANGED <<truncate, dir, items, missing_bibs, supabase, store, nextId, pagesLeft,
                   full_text, chunks, embedding, ct>>

\* lines 223-228: the record and its insert
Insert ==
    /\ pc = "insert"
    /\ store' = InsertRow(store, Record(nextId, chunks[i + 1], items[idx].meta, i, embedding))
    /\ nextId' = nextId + 1
    /\ hist' = [hist EXCEPT !.inserts = @ + 1,
                            !.chunkLog = Append(@, ChunkEntry("stored"))]
    /\ NextChunk
    /\ UNCHANGED <<truncate, dir, items, missing_bibs, supabase, pagesLeft, full_text,
                   chunks, embedding, ct>>

\* line 240: the worklist is exhausted
Complete ==
    /\ pc = "loop"
    /\ idx > Len(items)
    /\ pc' = "done"
    /\ UNCHANGED <<truncate, dir, items, missing_bibs, supabase, store, nextId, idx,
                   pagesLeft, full_text, chunks, i, embedding, hist, ct>>

Next ==
    \/ ScanNoDir
    \/ Scan
    \/ ConfirmMissing
    \/ ConfirmStart
    \/ Connect
    \/ Truncate
    \/ OpenPdfFails
    \/ OpenPdf
    \/ ExtractPageFails
    \/ ExtractPage
    \/ Chunk
    \/ EmbedFails
    \/ Embed
    \/ InsertFails
    \/ Insert
    \/ Complete

Spec == Init /\ [][Next]_vars

\* main is one sequential thread: whenever it has a next step, it takes it
FairSpec == Spec /\ WF_vars(Next)

----------------------------------------------------------------------------
(* Two runs of main on the same table *)

\* after a run without --truncate that ended without a failure the operator runs
\* the same command again: a new process, the same directory, the table and its
\* identity sequence as the first run left them
Rerun ==
    /\ pc = "done"
    /\ hist.run = 1
    /\ ~truncate
    /\ hist.faults = 0
    /\ pc' = "scan"
    /\ items' = <<>>
    /\ missing_bibs' = <<>>
    /\ supabase' = NoClient
    /\ idx' = 0
    /\ pagesLeft' = 0
    /\ full_text' = <<>>
    /\ chunks' = <<>>
    /\ i' = 0
    /\ embedding' = <<>>
    /\ hist' = [Hist0(store) EXCEPT !.run = 2, !.before = hist.store0,
                                    !.firstLog = hist.docLog]
    /\ UNCHANGED <<truncate, dir, store, nextId, ct>>

NextRerun == Next \/ Rerun

SpecRerun == Init /\ [][NextRerun]_vars

----------------------------------------------------------------------------
(* chunk_text on its own, one turn of its loop at a time *)

Alphabet == {"a", "b"}

PlainTexts == UNION {[1..n -> Alphabet] : n \in 0..MaxLen}

InitChunk ==
    /\ pc = "chunk_text"
    /\ truncate = FALSE
    /\ dir = NoDir
    /\ items = <<>>
    /\ missing_bibs = <<>>
    /\ supabase = NoClient
    /\ store = {}
    /\ nextId = 1
    /\ hist = Hist0({})
    /\ idx = 0
    /\ pagesLeft = 0
    /\ full_text = <<>>
    /\ chunks = <<>>
    /\ i = 0
    /\ embedding = <<>>
    /\ \E q \in PlainTexts, chunk_size \in 1..MaxSize, overlap \in 0..MaxSize :
          ct = ChunkFrame(Text(q), chunk_size, overlap)

\* one turn of the while loop; a call that never leaves the loop is followed for
\* MaxLen + 1 turns, more than any call that returns takes
ChunkLoop ==
    /\ ct.pc = "loop"
    /\ ChunkCond(ct.text, ct.start)
    /\ Len(ct.chunks) <= MaxLen
    /\ ct' = ChunkBody(ct)
    /\ UNCHANGED mainVars

\* line 147
ChunkReturn ==
    /\ ct.pc = "loop"
    /\ ~ChunkCond(ct.text, ct.start)
    /\ ct' = [ct EXCEPT !.pc = "returned"]
    /\ UNCHANGED mainVars

NextChunkText == ChunkLoop \/ ChunkReturn

SpecChunk == InitChunk /\ [][NextChunkText]_vars

----------------------------------------------------------------------------
(* scan_documents on its own, over every kind of sidecar *)

InitScan ==
    /\ pc = "scan"
    /\ truncate \in BOOLEAN
    /\ dir \in DirectoriesWith(ScanBibFiles)
    /\ items = <<>>
    /\ missing_bibs = <<>>
    /\ supabase = NoClient
    /\ store = {}
    /\ nextId = 1
    /\ hist = Hist0({})
    /\ idx = 0
    /\ pagesLeft = 0
    /\ full_text = <<>>
    /\ chunks = <<>>
    /\ i = 0
    /\ embedding = <<>>
    /\ ct = NoCall

NextScan == ScanNoDir \/ Scan

SpecScan == InitScan /\ [][NextScan]_vars

----------------------------------------------------------------------------
(* Properties of a run of main *)

\* the run has reached a service: a connection, a truncate, an embedding request
\* or an insert
SideEffect ==
    \/ hist.connects > 0
    \/ hist.truncates > 0
    \/ hist.embeds > 0
    \/ hist.inserts > 0
    \/ supabase # NoClient
    \/ store # hist.store0

\* C1: no connection, truncate, embedding request or insert happens before the
\* operator has answered y to the start prompt and, when some PDF has no sidecar,
\* to the missing-metadata prompt as well.
C1_NoSideEffectBeforeConfirmation ==
    SideEffect =>
        /\ hist.startAnswer = "y"
        /\ (missing_bibs # <<>> => hist.missingAnswer = "y")

\* an insert has been made for a PDF without sidecar, after both prompts
C1_Witness ==
    /\ missing_bibs # <<>>
    /\ hist.missingAnswer = "y"
    /\ hist.startAnswer = "y"
    /\ hist.connects = 1
    /\ \E r \in store : r \notin hist.store0

\* the rows the run has added
NewRows == store \ hist.store0

\* the rows the run has added for chunk j of item k
RowsOf(k, j) ==
    {r \in NewRows : r.metadata.source = items[k].meta.source /\ r.metadata.chunk_index = j}

DocEntries == {hist.docLog[n] : n \in 1..Len(hist.docLog)}
ChunkEntries == {hist.chunkLog[n] : n \in 1..Len(hist.chunkLog)}

Failed(e) == e.result \in {"embed_failed", "insert_failed"}

InLoop == pc \in {"loop", "extract", "embed", "insert", "done"}

\* C2: a chunk whose embedding or insert fails leaves no record and removes none;
\* a stored chunk keeps its one record; the failure does not leave the loop, and
\* when the run is done every chunk of every document that was read has been
\* attempted once and every item of the worklist has been attempted.
C2_ChunkFailureIsolated ==
    /\ \A e \in ChunkEntries :
          Cardinality(RowsOf(e.item, e.i)) = IF Failed(e) THEN 0 ELSE 1
    /\ (\E e \in ChunkEntries : Failed(e)) => InLoop
    /\ pc = "done" =>
          /\ \A d \in DocEntries :
                d.result = "read" =>
                   \A j \in 0..(d.nchunks - 1) :
                      Cardinality({n \in 1..Len(hist.chunkLog) :
                                     /\ hist.chunkLog[n].item = d.item
                                     /\ hist.chunkLog[n].i = j}) = 1
          /\ \A k \in 1..Len(items) : \E d \in DocEntries : d.item = k

\* the run is done; a chunk failed, a later chunk of the same document was stored
\* and so was a chunk of the next document
C2_Witness ==
    /\ pc = "done"
    /\ \E e \in ChunkEntries, f \in ChunkEntries, g \in ChunkEntries :
          /\ Failed(e)
          /\ f.item = e.item /\ f.i > e.i /\ f.result = "stored"
          /\ g.item = e.item + 1 /\ g.result = "stored"

\* C3: a document whose PDF cannot be opened or whose page extraction fails gets
\* no embedding request and no record; the failure does not leave the loop, and
\* when the run is done every item of the worklist has been attempted, once each
\* and in order.
C3_DocumentFailureIsolated ==
    /\ \A d \in DocEntries :
          d.result # "read" =>
             /\ ~\E e \in ChunkEntries : e.item = d.item
             /\ ~\E r \in NewRows : r.metadata.source = items[d.item].meta.source
             /\ InLoop
    /\ hist.embeds = Len(hist.chunkLog) + (IF pc = "insert" THEN 1 ELSE 0)
    /\ pc \in {"embed", "insert"} =>
          \E d \in DocEntries : d.item = idx /\ d.result = "read"
    /\ pc = "done" =>
          /\ Len(hist.docLog) = Len(items)
          /\ \A n \in 1..Len(items) : hist.docLog[n].item = n

\* the run is done; the first document failed at a page, the second at its open,
\* or the first failed and the second was read and stored
C3_Witness ==
    /\ pc = "done"
    /\ Len(items) = 2
    /\ hist.docLog[1].result = "extract_failed"
    /\ hist.docLog[2].result = "read"
    /\ \E r \in NewRows : r.metadata.source = items[2].meta.source

\* every item of the worklist has been attempted exactly once
AttemptedOnce ==
    /\ hist.opens = Len(items)
    /\ Len(hist.docLog) = Len(items)
    /\ \A n \in 1..Len(items) : hist.docLog[n].item = n

\* C4: a run that has entered the ingestion loop reaches the completion message,
\* whatever fails on the way, and has then attempted every item exactly once.
C4_IngestingReachesDone ==
    /\ (pc = "loop") ~> (pc = "done")
    /\ [](pc = "done" => AttemptedOnce)

\* the run is done although every chunk of two documents failed
C4_Witness ==
    /\ pc = "done"
    /\ Len(items) = 2
    /\ \E e \in ChunkEntries : e.item = 1
    /\ \E e \in ChunkEntries : e.item = 2
    /\ \A e \in ChunkEntries : Failed(e)
    /\ NewRows = {}

\* the chunks chunk_text returned over the documents that were read
RECURSIVE SumChunks(_)
SumChunks(log) == IF log = <<>> THEN 0 ELSE Head(log).nchunks + SumChunks(Tail(log))

TotalChunks == SumChunks(hist.docLog)

FailedChunks == Cardinality({n \in 1..Len(hist.chunkLog) : Failed(hist.chunkLog[n])})

\* C5 as stated: a run with the truncate flag that is done leaves exactly as many
\* rows as the worklist yielded chunks.
C5_Original ==
    (pc = "done" /\ truncate) => Cardinality(store) = TotalChunks

\* C5, amended: a run with the truncate flag that is done leaves one row per chunk
\* whose embedding and insert succeeded, on top of the old rows when the delete
\* failed; that is M rows when the delete succeeded and no chunk failed.
C5_TruncateThenIngestRowCount ==
    (pc = "done" /\ truncate) =>
        /\ Cardinality(store) =
              (IF hist.truncated = "ok" THEN 0 ELSE Cardinality(hist.store0))
              + (TotalChunks - FailedChunks)
        /\ (hist.truncated = "ok" /\ FailedChunks = 0) => Cardinality(store) = TotalChunks

\* a truncating run over old rows is done, nothing failed, several chunks were stored
C5_Witness ==
    /\ pc = "done"
    /\ truncate
    /\ hist.store0 # {}
    /\ hist.truncated = "ok"
    /\ hist.faults = 0
    /\ TotalChunks >= 2
    /\ Cardinality(store) = TotalChunks

\* C6: truncate_database is called at most once, only with the flag set and a
\* client at hand, and has been called by the time the loop is entered or an
\* insert is made; without the flag it is never called and no old row goes away.
C6_TruncateOnceBeforeInserts ==
    /\ hist.truncates <= 1
    /\ hist.truncates = 1 => (truncate /\ supabase = Client /\ hist.connects = 1)
    /\ (truncate /\ (InLoop \/ hist.embeds > 0 \/ hist.inserts > 0)) => hist.truncates = 1
    /\ ~truncate => (hist.truncates = 0 /\ hist.store0 \subseteq store)

\* the table was truncated once and rows were inserted after that
C6_Witness ==
    /\ truncate
    /\ hist.truncates = 1
    /\ hist.store0 # {}
    /\ hist.inserts > 0
    /\ NewRows # {}

\* a prompt was answered with something other than y
Declined == hist.missingAnswer = "other" \/ hist.startAnswer = "other"

\* C9: once a prompt is declined the run is aborted and stays so: the table is as
\* it was, and there was no connection, truncate, PDF read, embedding request or
\* insert.
C9_DeclineLeavesNoTrace ==
    Declined =>
        /\ pc = "aborted"
        /\ store = hist.store0
        /\ supabase = NoClient
        /\ hist.connects = 0
        /\ hist.truncates = 0
        /\ hist.opens = 0
        /\ hist.embeds = 0
        /\ hist.inserts = 0

\* the start prompt was declined, after the missing-metadata prompt was confirmed,
\* in a run that was asked to truncate a table with rows
C9_Witness ==
    /\ pc = "aborted"
    /\ hist.missingAnswer = "y"
    /\ hist.startAnswer = "other"
    /\ truncate
    /\ store # {}

\* setup_services was called and raised
ConnectFailed == hist.connects > 0 /\ supabase = NoClient

\* C10: when setup_services raises the run ends there: no truncate even with the
\* flag set, no PDF opened, no embedding request, no insert, the table as it was.
C10_ConnectFailureTouchesNothing ==
    ConnectFailed =>
        /\ pc = "conn_failed"
        /\ store = hist.store0
        /\ hist.truncates = 0
        /\ hist.opens = 0
        /\ hist.docLog = <<>>
        /\ hist.embeds = 0
        /\ hist.inserts = 0

\* the connection failed in a run that was asked to truncate a table with rows
C10_Witness ==
    /\ pc = "conn_failed"
    /\ truncate
    /\ store # {}
    /\ Len(items) = 2

\* the rows the run has added are those of the chunks logged as stored
StoredOnTop ==
    /\ hist.store0 \subseteq store
    /\ Cardinality(NewRows) =
          Cardinality({n \in 1..Len(hist.chunkLog) : hist.chunkLog[n].result = "stored"})
    /\ \A e \in ChunkEntries : e.result = "stored" => Cardinality(RowsOf(e.item, e.i)) = 1

\* C11: when the delete of truncate_database fails in a run asked to truncate, the
\* failure is noted, the run goes on into the ingestion loop and reaches the
\* completion message; every item of the worklist has then been attempted, and the
\* chunks that were stored lie on top of the rows the table held, none of which
\* is gone.
C11_TruncateFailureContinues ==
    /\ (hist.truncated = "failed") ~> (pc = "done")
    /\ [](hist.truncated = "failed" =>
             /\ truncate
             /\ InLoop
             /\ StoredOnTop
             /\ (pc = "done" => AttemptedOnce /\ Cardinality(store) =
                                    Cardinality(hist.store0) + TotalChunks - FailedChunks))

\* the delete failed on a table with rows; the run is done and has stored chunks
\* of two documents on top of them
C11_Witness ==
    /\ pc = "done"
    /\ hist.truncated = "failed"
    /\ hist.store0 # {}
    /\ hist.store0 \subseteq store
    /\ Len(items) = 2
    /\ \E e \in ChunkEntries : e.item = 1 /\ e.result = "stored"
    /\ \E e \in ChunkEntries : e.item = 2 /\ e.result = "stored"

\* a row is the record of chunk j (zero-based) of the item at hand
RecordOfChunk(r, j) ==
    /\ j < Len(chunks)
    /\ r.content = chunks[j + 1]
    /\ r.metadata.chunk_index = j
    /\ DOMAIN r.metadata = DOMAIN items[idx].meta \cup {"chunk_index"}
    /\ \A key \in DOMAIN items[idx].meta : r.metadata[key] = items[idx].meta[key]

\* C13: every row a step of the run adds is the record of the chunk being
\* processed: its content is that chunk, its chunk_index the chunk's zero-based
\* index, its other metadata that of the chunk's document; the run never holds
\* two new rows for one document and chunk index, and a run that is done without
\* a failure has added exactly one row per chunk.
C13_RecordPerChunk ==
    /\ [][\A r \in store' \ store : pc = "insert" /\ RecordOfChunk(r, i)]_vars
    /\ [](\A r1 \in NewRows, r2 \in NewRows :
             (/\ r1.metadata.source = r2.metadata.source
              /\ r1.metadata.chunk_index = r2.metadata.chunk_index) => r1 = r2)
    /\ []((pc = "done" /\ hist.faults = 0) =>
             /\ Cardinality(NewRows) = TotalChunks
             /\ \A d \in DocEntries : \A j \in 0..(d.nchunks - 1) :
                   Cardinality(RowsOf(d.item, j)) = 1)

\* a run over two documents is done without a failure; one of them had two chunks
C13_Witness ==
    /\ pc = "done"
    /\ hist.faults = 0
    /\ Len(items) = 2
    /\ TotalChunks >= 3
    /\ Cardinality(NewRows) = TotalChunks
    /\ \E r \in NewRows : r.metadata.chunk_index = 1 /\ r.metadata.source = items[2].meta.source

\* the rows in the table since the first run began, for chunk j of item k
RowsSinceFirst(k, j) ==
    {r \in store \ hist.before :
        r.metadata.source = items[k].meta.source /\ r.metadata.chunk_index = j}

\* a second run is done, neither run met a failure, and it read the documents as
\* the first run did
TwoCleanRuns ==
    /\ pc = "done"
    /\ hist.run = 2
    /\ hist.faults = 0
    /\ hist.docLog = hist.firstLog

\* C15: an insert adds one row and leaves every other row as it is; a run without
\* the truncate flag keeps every row the table held before it; and after two
\* complete failure-free runs without the flag over the same worklist the table
\* holds its N old rows and two rows for every document and chunk index, N + 2M
\* rows in all.
C15_InsertOnlyAdds ==
    /\ [][pc = "insert" =>
             /\ store \subseteq store'
             /\ Cardinality(store') <= Cardinality(store) + 1]_vars
    /\ [](~truncate => hist.store0 \subseteq store /\ hist.before \subseteq store)
    /\ []((TwoCleanRuns /\ ~truncate) =>
             /\ Cardinality(store) = Cardinality(hist.before) + 2 * TotalChunks
             /\ \A d \in DocEntries : \A j \in 0..(d.nchunks - 1) :
                   Cardinality(RowsSinceFirst(d.item, j)) = 2)

\* two failure-free runs without the flag are done on a table that had a row; each
\* stored the same three chunks or more
C15_Witness ==
    /\ TwoCleanRuns
    /\ ~truncate
    /\ hist.before # {}
    /\ TotalChunks >= 3
    /\ Cardinality(store) = Cardinality(hist.before) + 2 * TotalChunks

\* the scan has returned and found no PDF
NothingFound == dir.exists /\ dir.pdf_files = <<>> /\ pc # "scan"

\* C18: when the scan finds no PDF the run ends there and stays ended: no prompt
\* is shown, there is no connection, no truncate even with the flag set, no PDF
\* read, no embedding request and no insert, and the table is as it was.
C18_EmptyScanIsNoOp ==
    /\ [](NothingFound =>
             /\ pc = "no_docs"
             /\ items = <<>>
             /\ hist.missingAnswer = "unasked"
             /\ hist.startAnswer = "unasked"
             /\ supabase = NoClient
             /\ hist.connects = 0
             /\ hist.truncates = 0
             /\ hist.opens = 0
             /\ hist.embeds = 0
             /\ hist.inserts = 0
             /\ store = hist.store0)
    /\ [][pc = "no_docs" => pc' = "no_docs"]_vars
    /\ [](pc = "no_docs" => NothingFound)

\* an empty directory was scanned in a run asked to truncate a table with rows
C18_Witness ==
    /\ pc = "no_docs"
    /\ NothingFound
    /\ truncate
    /\ store # {}

\* chunk entry a was the last chunk of its document
LastChunk(a) ==
    \E d \in DocEntries : d.item = a.item /\ d.result = "read" /\ a.i = d.nchunks - 1

\* C19: an insert is issued only with the embedding that was returned for the
\* chunk being inserted, so every row the run adds holds the embedding of its own
\* content, and there is one insert for every chunk whose embedding request did
\* not fail; the chunks of a document are attempted in the order 0, 1, 2, ...,
\* and a chunk of a later item only after the last chunk of the item attempted
\* before it.
C19_EmbedBeforeInsert ==
    /\ pc = "insert" =>
          /\ i < Len(chunks)
          /\ embedding = get_embedding(chunks[i + 1])
          /\ hist.embeds = Len(hist.chunkLog) + 1
    /\ pc # "insert" => hist.embeds = Len(hist.chunkLog)
    /\ hist.inserts =
          Cardinality({n \in 1..Len(hist.chunkLog) : hist.chunkLog[n].result # "embed_failed"})
    /\ \A r \in NewRows : r.embedding = get_embedding(r.content)
    /\ hist.chunkLog # <<>> => hist.chunkLog[1].i = 0
    /\ \A n \in 1..(Len(hist.chunkLog) - 1) :
          LET a == hist.chunkLog[n]
              b == hist.chunkLog[n + 1]
          IN  \/ b.item = a.item /\ b.i = a.i + 1
              \/ b.item > a.item /\ b.i = 0 /\ LastChunk(a)
    /\ pc \in {"embed", "insert"} =>
          IF i = 0
          THEN \A e \in ChunkEntries : e.item < idx
          ELSE hist.chunkLog[Len(hist.chunkLog)] \in
                  {[item |-> idx, i |-> i - 1, result |-> res] :
                      res \in {"embed_failed", "insert_failed", "stored"}}

\* a chunk of the second document is about to be inserted with its embedding,
\* after both chunks of the first were attempted, one of which failed at its
\* embedding
C19_Witness ==
    /\ pc = "insert"
    /\ idx = 2
    /\ embedding = get_embedding(chunks[i + 1])
    /\ Len(hist.chunkLog) >= 2
    /\ hist.chunkLog[1].item = 1 /\ hist.chunkLog[2].item = 1
    /\ \E e \in ChunkEntries : e.result = "embed_failed"
    /\ \E e \in ChunkEntries : e.result = "stored"

----------------------------------------------------------------------------
(* Properties of scan_documents and parse_bib_file *)

\* scan_documents has returned
Scanned == pc \notin {"scan", "crashed"}

\* the names of the PDFs of the directory that have no sidecar
NoSidecar ==
    {PathName(dir.pdf_files[k].stem) :
        k \in {n \in 1..Len(dir.pdf_files) : dir.pdf_files[n].bib.kind = "absent"}}

\* C12: on an existing directory scan_documents returns; the worklist has one item
\* per PDF, in glob order, none left out and none twice; the missing-metadata list
\* holds the names of the PDFs without sidecar, each once and no other name; and
\* every name in it is the source of an item of the worklist.
C12_ScanWorklist ==
    /\ (dir.exists /\ pc # "scan") => Scanned
    /\ Scanned =>
          /\ Len(items) = Len(dir.pdf_files)
          /\ \A k \in 1..Len(items) :
                /\ items[k].path = PathName(dir.pdf_files[k].stem)
                /\ items[k].meta.source = PathName(dir.pdf_files[k].stem)
          /\ {missing_bibs[n] : n \in 1..Len(missing_bibs)} = NoSidecar
          /\ Len(missing_bibs) = Cardinality(NoSidecar)
          /\ \A n \in 1..Len(missing_bibs) :
                \E k \in 1..Len(items) : items[k].meta.source = missing_bibs[n]

\* a directory of two PDFs was scanned: one has no sidecar, the other has one that
\* cannot be read
C12_Witness ==
    /\ Scanned
    /\ Len(items) = 2
    /\ Len(missing_bibs) = 1
    /\ \E k \in 1..2 : dir.pdf_files[k].bib.kind = "unreadable"

\* the PDFs whose sidecar exists but cannot be read, or makes the parser raise
Unparsed ==
    {k \in 1..Len(dir.pdf_files) : dir.pdf_files[k].bib.kind \in {"unreadable", "malformed"}}

\* C16: a sidecar that cannot be read or parsed does not stop the scan; its
\* document is in the worklist with exactly the default metadata (source and
\* title the file name, year "Unknown", type "document", author "Unknown", no
\* other field), and its name is not in the missing-metadata list.
C16_UnparsedSidecarDefaults ==
    /\ (Unparsed # {} /\ pc # "scan") => Scanned
    /\ Scanned =>
          \A k \in Unparsed :
              LET filename == PathName(dir.pdf_files[k].stem)
              IN  /\ k <= Len(items)
                  /\ items[k].path = filename
                  /\ items[k].meta = [source |-> filename, title |-> filename,
                                      year |-> "Unknown", type |-> "document",
                                      author |-> "Unknown"]
                  /\ \A n \in 1..Len(missing_bibs) : missing_bibs[n] # filename

\* a directory was scanned in which one sidecar cannot be read and another cannot
\* be parsed
C16_Witness ==
    /\ Scanned
    /\ Len(items) = 2
    /\ \E k \in Unparsed : dir.pdf_files[k].bib.kind = "unreadable"
    /\ \E k \in Unparsed : dir.pdf_files[k].bib.kind = "malformed"
    /\ missing_bibs = <<>>

\* C14: the metadata of every item of the worklist has the fields source, title,
\* year, type and author; for a PDF without sidecar year and author are "Unknown"
\* and type is "document"; and every row the run adds has an author in its
\* metadata.
C14_MetadataFields ==
    /\ \A k \in 1..Len(items) :
          /\ {"source", "title", "year", "type", "author"} \subseteq DOMAIN items[k].meta
          /\ dir.pdf_files[k].bib.kind = "absent" =>
                /\ items[k].meta.year = "Unknown"
                /\ items[k].meta.type = "document"
                /\ items[k].meta.author = "Unknown"
    /\ \A r \in NewRows : "author" \in DOMAIN r.metadata

----------------------------------------------------------------------------
(* Properties of chunk_text *)

CeilDiv(a, b) == (a + b - 1) \div b

\* the call has returned and its arguments satisfy 0 <= overlap < chunk_size
Returned == ct.pc = "returned" /\ ct.overlap < ct.chunk_size

\* C7 as stated: ceil(max(L - o, 0) / (c - o)) chunks for L > 0, none for L = 0.
C7_Original ==
    Returned =>
        LET L == StrLen(ct.text)
        IN  Len(ct.chunks) = IF L = 0 THEN 0
                             ELSE CeilDiv(Max(L - ct.overlap, 0), ct.chunk_size - ct.overlap)

\* C7, amended: chunk_text returns ceil(L / (c - o)) chunks, which is 0 for L = 0.
C7_ChunkCount ==
    Returned => Len(ct.chunks) = CeilDiv(StrLen(ct.text), ct.chunk_size - ct.overlap)

\* a call with an overlap has returned several chunks
C7_Witness ==
    /\ Returned
    /\ ct.overlap > 0
    /\ StrLen(ct.text) > ct.chunk_size
    /\ Len(ct.chunks) >= 2

\* the characters of the text from offset a up to offset b, clipped to the text
Window(q, a, b) == SubSeq(q, a + 1, Min(b, Len(q)))

\* the last k and the first k characters of a chunk
LastK(q, k) == SubSeq(q, Len(q) - k + 1, Len(q))
FirstK(q, k) == SubSeq(q, 1, k)

\* chunk i (zero-based) is the window of the text at offset i * (c - o)
ChunksAreWindows ==
    \A k \in 1..Len(ct.chunks) :
        Chars(ct.chunks[k]) =
            Window(Chars(ct.text), (k - 1) * (ct.chunk_size - ct.overlap),
                   (k - 1) * (ct.chunk_size - ct.overlap) + ct.chunk_size)

\* C8 as stated: the chunks are the windows, neighbours share exactly o characters
\* and only the last chunk is shorter than c.
C8_Original ==
    Returned =>
        /\ ChunksAreWindows
        /\ \A k \in 1..(Len(ct.chunks) - 1) :
              LET a == Chars(ct.chunks[k])
                  b == Chars(ct.chunks[k + 1])
              IN  /\ Len(a) = ct.chunk_size
                  /\ Len(b) >= ct.overlap
                  /\ LastK(a, ct.overlap) = FirstK(b, ct.overlap)

\* C8, amended: the chunks are the windows; chunk i has min(c, L - i * (c - o))
\* characters; chunks i and i + 1 share the min(o, L - (i + 1) * (c - o))
\* characters in which their windows meet, which is o whenever chunk i has all its
\* c characters, and otherwise chunk i + 1 is the tail of chunk i.
C8_ChunkWindows ==
    Returned =>
        LET L == StrLen(ct.text)
            step == ct.chunk_size - ct.overlap
        IN  /\ ChunksAreWindows
            /\ \A k \in 1..Len(ct.chunks) :
                  StrLen(ct.chunks[k]) = Min(ct.chunk_size, L - (k - 1) * step)
            /\ \A k \in 1..(Len(ct.chunks) - 1) :
                  LET a == Chars(ct.chunks[k])
                      b == Chars(ct.chunks[k + 1])
                      shared == Min(ct.overlap, L - k * step)
                  IN  /\ Len(a) >= shared /\ Len(b) >= shared
                      /\ LastK(a, shared) = FirstK(b, shared)
                      /\ Len(a) = ct.chunk_size => shared = ct.overlap
                      /\ Len(a) < ct.chunk_size => (Len(b) = shared /\ b = LastK(a, Len(b)))

\* a call has returned chunks of which one before the last is shorter than c
C8_Witness ==
    /\ Returned
    /\ ct.overlap > 0
    /\ Len(ct.chunks) >= 3
    /\ StrLen(ct.chunks[1]) = ct.chunk_size
    /\ StrLen(ct.chunks[Len(ct.chunks) - 1]) < ct.chunk_size

\* C17: chunk_text terminates on every input: a call takes no more turns of its
\* loop than the text has characters, and a call with chunk_size <= overlap on a
\* text that is not empty is refused before the loop takes a turn.
C17_ChunkTextTerminates ==
    /\ (ct.chunk_size <= ct.overlap /\ StrLen(ct.text) > 0) =>
          /\ ct.chunks = <<>>
          /\ ct.pc # "returned"
    /\ Len(ct.chunks) <= StrLen(ct.text)

====
